---------------------------- MODULE Spec2Model ----------------------------
(***************************************************************************)
(* A model of the grapes GraphSAINT harness:                               *)
(*   - the model library src/modules/gcn.py (GraphSAGE, GCN, GAT, GCN2,    *)
(*     PNA): construction from hidden_dims and the forward pass;           *)
(*   - the multi-label F1 block of test() in src/graphsaint.py;            *)
(*   - the driver of src/graphsaint.py: runs, epochs, train() and test().  *)
(* Tensors are abstract: a tensor is its shape (rows, cols) and the term   *)
(* (the sequence of operations) that produced its content, so two tensors  *)
(* with the same term hold the same values.  Python floats are modelled as *)
(* exact rationals <<numerator, denominator>>.                             *)
(***************************************************************************)
EXTENDS Integers, Sequences, FiniteSets, TLC

\* ------------------------------------------------------------------ bounds
MaxLayers == 3      \* len(hidden_dims) ranges over 0..MaxLayers
MaxWidth == 2       \* in_features and the hidden_dims entries range over 1..MaxWidth
MaxNodes == 2       \* number of nodes (rows of x) ranges over 1..MaxNodes

VARIABLES
    \* --- model library (src/modules/gcn.py)
    arch,           \* the class being constructed
    in_features,    \* constructor argument
    hidden_dims,    \* constructor argument, a sequence of widths
    dropout,        \* constructor argument p, in percent (0 or 50)
    net,            \* the module object: [status, convs, lins, training]
    edge_index,     \* forward argument: [list |-> BOOLEAN, len |-> Nat]
    nrows,          \* rows of the feature matrix x given to forward
    lpc,            \* position in the library scenario
    li,             \* loop variable i of forward's enumerate(..., start=1)
    x,              \* forward's local x: [rows, cols, term]
    consumed,       \* 0-based edge_index positions the layers received, in order
    pass,           \* which of the two forward passes is running (1 or 2)
    outs,           \* outs[p]: what forward pass p returned, or NoOut
    \* --- the multi-label block of test() (src/graphsaint.py 52-67)
    tp, fp, fn,     \* the counts of lines 56-58
    precision,      \* local of line 61
    recall,         \* local of line 62
    test_acc,       \* local of lines 63 and 65
    fpc,            \* position in the block
    ret,            \* the value test() returned
    \* --- the driver (src/graphsaint.py)
    runs,           \* args.runs
    run,            \* loop variable of line 71
    epoch,          \* loop variable of line 87
    pc,             \* position in the script
    cuda,           \* torch.cuda.is_available()
    device,         \* line 83
    ydim,           \* data.y.dim()
    num_nodes,      \* data.num_nodes
    mode,           \* model.training: "train" or "eval"
    params,         \* number of optimizer steps applied to the model's parameters
    nbatch,         \* batches the loader has yielded in this train call
    nstep,          \* optimizer steps applied in this train call
    loss_sum,       \* sum of loss.item() over this train call's batches
    total_loss,     \* local of train
    total_examples, \* local of train
    loss,           \* what train returned (line 88)
    accs,           \* what test returned (line 89)
    lines,          \* epoch lines printed in the current run
    results,        \* results[r]: [written |-> number of stores, val |-> value]
    summary,        \* summary lines printed
    err             \* the uncaught exception: [in |-> function, exc |-> name]

libVars == <<arch, in_features, hidden_dims, dropout, net, edge_index, nrows,
             lpc, li, x, consumed, pass, outs>>

f1Vars == <<tp, fp, fn, precision, recall, test_acc, fpc, ret>>

drvVars == <<runs, run, epoch, pc, cuda, device, ydim, num_nodes, mode, params,
             nbatch, nstep, loss_sum, total_loss, total_examples, loss, accs,
             lines, results, summary, err>>

vars == <<libVars, f1Vars, drvVars>>

Archs == {"GraphSAGE", "GCN", "GAT", "GCN2", "PNA"}
ChainArchs == {"GraphSAGE", "GCN", "GAT"}
Widths == 1..MaxWidth

\* Sequences over S of length 0..n.
RECURSIVE SeqsUpTo(_, _)
SeqsUpTo(S, n) ==
    IF n = 0 THEN {<<>>}
    ELSE LET shorter == SeqsUpTo(S, n - 1)
         IN  shorter \cup {Append(s, e) : s \in {t \in shorter : Len(t) = n - 1}, e \in S}

\* ------------------------------------------------------- Python list access
\* s[i] for a Python list s held as a TLA+ sequence: i may be negative, and an
\* index outside -len..len-1 raises IndexError.
PyInRange(s, i) == -Len(s) <= i /\ i < Len(s)
PyGet(s, i) == IF i >= 0 THEN s[i + 1] ELSE s[Len(s) + i + 1]

\* ------------------------------------------------------------ constructors
Layer(cin, cout) == [cin |-> cin, cout |-> cout]
Failed(exc) == [status |-> exc, convs |-> <<>>, lins |-> <<>>, training |-> TRUE]
Built(convs, lins) == [status |-> "ok", convs |-> convs, lins |-> lins, training |-> TRUE]

\* A constructor that skips the last layer when dims has no dims[-2] and hands
\* back a model with no layers (ChainInit with that slip).
ChainInitLenient(F, hd) ==
    LET dims == <<F>> \o hd
        n == IF Len(hd) >= 1 THEN Len(hd) - 1 ELSE 0
        loop == [i \in 1..n |-> Layer(PyGet(dims, i - 1), PyGet(dims, i))]
    IN  IF ~PyInRange(dims, -2) THEN Built(loop, <<>>)
        ELSE Built(Append(loop, Layer(PyGet(dims, -2), PyGet(dims, -1))), <<>>)

\* GraphSAGE.__init__, GCN.__init__, GAT.__init__: the loop over
\* range(len(hidden_dims) - 1), then the last layer from dims[-2], dims[-1].
ChainInit(F, hd) ==
    LET dims == <<F>> \o hd
        n == IF Len(hd) >= 1 THEN Len(hd) - 1 ELSE 0
        loop == [i \in 1..n |-> Layer(PyGet(dims, i - 1), PyGet(dims, i))]
    IN  IF ~PyInRange(dims, -2) THEN Failed("IndexError")
        ELSE Built(Append(loop, Layer(PyGet(dims, -2), PyGet(dims, -1))), <<>>)

\* GCN2.__init__: two Linear layers from hidden_dims[0] and hidden_dims[1], then
\* len(hidden_dims) GCN2Conv layers, all of hidden_dims[0] channels.
GCN2Init(F, hd) ==
    IF ~PyInRange(hd, 0) \/ ~PyInRange(hd, 1) THEN Failed("IndexError")
    ELSE Built([l \in 1..Len(hd) |-> Layer(PyGet(hd, 0), PyGet(hd, 0))],
               <<Layer(F, PyGet(hd, 0)), Layer(PyGet(hd, 0), PyGet(hd, 1))>>)

\* PNA.__init__: one PNAConv per hidden_dims entry, then Linear(in_features,
\* hidden_dims[-1]).  dropout and drop_input are never stored on self.
PNAInit(F, hd) ==
    LET dims == <<F>> \o hd
        convs == [i \in 1..Len(hd) |-> Layer(PyGet(dims, i - 1), PyGet(dims, i))]
    IN  IF ~PyInRange(hd, -1) THEN Failed("IndexError")
        ELSE Built(convs, <<Layer(F, PyGet(hd, -1))>>)

ModuleInit(a, F, hd) ==
    CASE a \in ChainArchs -> ChainInit(F, hd)
      [] a = "GCN2" -> GCN2Init(F, hd)
      [] a = "PNA" -> PNAInit(F, hd)

\* ------------------------------------------------------------ tensors
Tok(op, a, b) == [op |-> op, a |-> a, b |-> b]
Tensor(rows, cols, term) == [rows |-> rows, cols |-> cols, term |-> term]
Input(rows, cols) == Tensor(rows, cols, <<>>)
NoEdge == -1      \* the shared (non-list) connectivity

\* layer(x, edges): a convolution or Linear of widths cin -> cout applied to x.
WidthOk(t, layer) == t.cols = layer.cin
Apply(t, layer, op, idx, e) ==
    Tensor(t.rows, layer.cout, Append(t.term, Tok(op, idx, e)))
Relu(t) == Tensor(t.rows, t.cols, Append(t.term, Tok("relu", 0, 0)))

\* Two of the random masks a dropout in training mode can draw, and two of the
\* readings torch.cuda.memory_allocated() can give (in MiB).
Masks == {1, 2}
MemReadings == {0, 1}

\* A dropout that ignores the training flag (Dropout with that slip).
DropoutAlways(t, p, training) ==
    IF p > 0
    THEN {Tensor(t.rows, t.cols, Append(t.term, Tok("drop", m, 0))) : m \in Masks}
    ELSE {t}

\* F.dropout(x, p, training): the set of tensors it can return.
Dropout(t, p, training) ==
    IF training /\ p > 0
    THEN {Tensor(t.rows, t.cols, Append(t.term, Tok("drop", m, 0))) : m \in Masks}
    ELSE {t}

\* What forward hands back: GraphSAGE and GCN return the pair
\* (logits, memory_alloc), GAT and GCN2 return the logits tensor.
NoOut == [form |-> "none", status |-> "none", logits |-> Input(0, 0), mem |-> 0]
Raised(exc) == [form |-> "none", status |-> exc, logits |-> Input(0, 0), mem |-> 0]
ForwardForm(a) == IF a \in {"GraphSAGE", "GCN"} THEN "pair" ELSE "tensor"
Returned(a, logits, mem) ==
    [form |-> ForwardForm(a), status |-> "ok", logits |-> logits,
     mem |-> IF ForwardForm(a) = "pair" THEN mem ELSE 0]

\* edge_index[j] when edge_index is a list, edge_index itself otherwise.
EdgeInRange(ei, j) == ~ei.list \/ (-ei.len <= j /\ j < ei.len)
EdgeAt(ei, j) == IF ~ei.list THEN NoEdge ELSE IF j >= 0 THEN j ELSE ei.len + j

\* ------------------------------------------------------------ library: Init
LibStart ==
    /\ arch \in Archs
    /\ in_features \in Widths
    /\ hidden_dims \in SeqsUpTo(Widths, MaxLayers)
    /\ dropout \in {0, 50}
    /\ nrows \in 1..MaxNodes
    /\ net = Failed("unbuilt")
    /\ edge_index = [list |-> FALSE, len |-> 0]
    /\ lpc = "new"
    /\ li = 0
    /\ x = Input(0, 0)
    /\ consumed = <<>>
    /\ pass = 1
    /\ outs = [p \in 1..2 |-> NoOut]

\* The constructor call.
Construct ==
    /\ UNCHANGED <<f1Vars, drvVars>>
    /\ lpc = "new"
    /\ net' = ModuleInit(arch, in_features, hidden_dims)
    /\ lpc' = IF net'.status = "ok" THEN "built" ELSE "ctor_failed"
    /\ UNCHANGED <<arch, in_features, hidden_dims, dropout, edge_index, nrows,
                   li, x, consumed, pass, outs>>

\* model.train() or model.eval(), and the caller's choice of connectivity.
Prepare ==
    /\ UNCHANGED <<f1Vars, drvVars>>
    /\ lpc = "built"
    /\ \E tr \in BOOLEAN : net' = [net EXCEPT !.training = tr]
    /\ \E isList \in BOOLEAN, n \in 0..MaxLayers :
          /\ ~isList => n = 0
          /\ edge_index' = [list |-> isList, len |-> n]
    /\ lpc' = "call"
    /\ UNCHANGED <<arch, in_features, hidden_dims, dropout, nrows, li, x,
                   consumed, pass, outs>>

FwdRaise(exc) ==
    /\ outs' = [outs EXCEPT ![pass] = Raised(exc)]
    /\ lpc' = "returned"

\* The head of forward, up to the loop: GraphSAGE 22, GCN 56, GAT 92,
\* GCN2 129-132 (input dropout, lins[0], relu, x_0), PNA 166-167 (self.drop_input
\* is read and was never assigned).
ForwardBegin ==
    /\ UNCHANGED <<f1Vars, drvVars>>
    /\ lpc = "call"
    /\ consumed' = <<>>
    /\ li' = 1
    /\ CASE arch \in ChainArchs ->
              /\ x' = Input(nrows, in_features)
              /\ lpc' = "loop"
              /\ UNCHANGED outs
         [] arch = "GCN2" ->
              \E d \in Dropout(Input(nrows, in_features), dropout, net.training) :
                  IF WidthOk(d, net.lins[1])
                  THEN /\ x' = Relu(Apply(d, net.lins[1], "lin", 0, NoEdge))
                       /\ lpc' = "loop"
                       /\ UNCHANGED outs
                  ELSE /\ x' = d
                       /\ FwdRaise("DimensionMismatch")
         [] arch = "PNA" ->
              /\ x' = Input(nrows, in_features)
              /\ FwdRaise("AttributeError")
    /\ UNCHANGED <<arch, in_features, hidden_dims, dropout, net, edge_index, nrows, pass>>

\* One iteration of `for i, layer in enumerate(layers[:-1], start=1)`.
ForwardHidden ==
    /\ UNCHANGED <<f1Vars, drvVars>>
    /\ lpc = "loop"
    /\ li <= Len(net.convs) - 1
    /\ IF ~EdgeInRange(edge_index, -li)
       THEN /\ FwdRaise("IndexError")
            /\ UNCHANGED <<x, consumed, li>>
       ELSE LET e == EdgeAt(edge_index, -li)
                layer == net.convs[li]
            IN  IF arch = "GCN2"
                THEN \E d \in Dropout(x, dropout, net.training) :
                        IF WidthOk(d, layer)
                        THEN /\ x' = Relu(Apply(d, layer, "conv_x0", li, e))
                             /\ consumed' = Append(consumed, e)
                             /\ li' = li + 1
                             /\ UNCHANGED <<lpc, outs>>
                        ELSE /\ FwdRaise("DimensionMismatch")
                             /\ UNCHANGED <<x, consumed, li>>
                ELSE IF WidthOk(x, layer)
                THEN /\ x' \in (IF arch = "GAT"
                                THEN {Relu(Apply(x, layer, "conv", li, e))}
                                ELSE Dropout(Relu(Apply(x, layer, "conv", li, e)),
                                             dropout, net.training))
                     /\ consumed' = Append(consumed, e)
                     /\ li' = li + 1
                     /\ UNCHANGED <<lpc, outs>>
                ELSE /\ FwdRaise("DimensionMismatch")
                     /\ UNCHANGED <<x, consumed, li>>
    /\ UNCHANGED <<arch, in_features, hidden_dims, dropout, net, edge_index, nrows, pass>>

\* After the loop: edge_index[0], the last layer, and the return.
ForwardFinal ==
    /\ UNCHANGED <<f1Vars, drvVars>>
    /\ lpc = "loop"
    /\ li > Len(net.convs) - 1
    /\ IF ~EdgeInRange(edge_index, 0)
       THEN /\ FwdRaise("IndexError")
            /\ UNCHANGED <<x, consumed>>
       ELSE LET e == EdgeAt(edge_index, 0)
                k == Len(net.convs)
                layer == net.convs[k]
            IN  IF arch = "GCN2"
                THEN \E d \in Dropout(x, dropout, net.training) :
                        IF WidthOk(d, layer) /\ WidthOk(Apply(d, layer, "conv_x0", k, e), net.lins[2])
                        THEN /\ x' = Apply(Apply(d, layer, "conv_x0", k, e), net.lins[2], "lin", 1, NoEdge)
                             /\ consumed' = Append(consumed, e)
                             /\ outs' = [outs EXCEPT ![pass] = Returned(arch, x', 0)]
                             /\ lpc' = "returned"
                        ELSE /\ FwdRaise("DimensionMismatch")
                             /\ UNCHANGED <<x, consumed>>
                ELSE IF WidthOk(x, layer)
                THEN /\ x' \in (IF arch = "GAT"
                                THEN {Apply(x, layer, "conv", k, e)}
                                ELSE Dropout(Apply(x, layer, "conv", k, e),
                                             dropout, net.training))
                     /\ consumed' = Append(consumed, e)
                     /\ \E mem \in MemReadings :
                           outs' = [outs EXCEPT ![pass] = Returned(arch, x', mem)]
                     /\ lpc' = "returned"
                ELSE /\ FwdRaise("DimensionMismatch")
                     /\ UNCHANGED <<x, consumed>>
    /\ UNCHANGED <<arch, in_features, hidden_dims, dropout, net, edge_index, nrows, li, pass>>

\* In evaluation mode the caller runs forward a second time on the same inputs
\* and parameters.
ForwardAgain ==
    /\ UNCHANGED <<f1Vars, drvVars>>
    /\ lpc = "returned"
    /\ pass = 1
    /\ ~net.training
    /\ outs[1].status = "ok"
    /\ pass' = 2
    /\ lpc' = "call"
    /\ UNCHANGED <<arch, in_features, hidden_dims, dropout, net, edge_index, nrows,
                   li, x, consumed, outs>>

LibNext ==
    \/ Construct
    \/ Prepare
    \/ ForwardBegin
    \/ ForwardHidden
    \/ ForwardFinal
    \/ ForwardAgain

\* ------------------------------------------------- test(): multi-label block
\* Python's float results as exact rationals in lowest terms.
RECURSIVE Gcd(_, _)
Gcd(a, b) == IF b = 0 THEN a ELSE Gcd(b, a % b)
Rat(n, d) == LET g == Gcd(n, d) IN [n |-> n \div g, d |-> d \div g]
Zero == [n |-> 0, d |-> 1]
RatMul(a, b) == Rat(a.n * b.n, a.d * b.d)
RatAdd(a, b) == Rat(a.n * b.d + b.n * a.d, a.d * b.d)
\* a / b: Python raises ZeroDivisionError when b is zero.
DivRaises(b) == b.n = 0
RatDiv(a, b) == Rat(a.n * b.d, a.d * b.n)
FromInt(k) == [n |-> k, d |-> 1]

\* Line 63's numerator without its factor 2 (FNum with that slip).
FNumNoTwo(p, r) == RatMul(p, r)
\* Line 63's numerator and denominator: 2 * (precision * recall), precision + recall.
FNum(p, r) == RatMul(FromInt(2), RatMul(p, r))
FDen(p, r) == RatAdd(p, r)

\* `except ZeroDivisionError`: the handler takes this exception and no other.
Handles(exc) == exc = "ZeroDivisionError"

MaxCount == 4       \* tp, fp and fn range over 0..MaxCount
MaxRuns == 2        \* args.runs ranges over 0..MaxRuns
MaxBatches == 2     \* the loader yields 1..MaxBatches batches per epoch
MaxLoss == 1        \* loss.item() ranges over 0..MaxLoss
NumEpochs == 100    \* range(1, 101)

F1Idle ==
    /\ tp = 0 /\ fp = 0 /\ fn = 0
    /\ precision = Zero /\ recall = Zero /\ test_acc = Zero
    /\ fpc = "idle" /\ ret = Zero

LibIdle ==
    /\ arch = "GCN" /\ in_features = 1 /\ hidden_dims = <<>> /\ dropout = 0
    /\ nrows = 1 /\ net = Failed("unbuilt")
    /\ edge_index = [list |-> FALSE, len |-> 0]
    /\ lpc = "idle" /\ li = 0 /\ x = Input(0, 0) /\ consumed = <<>>
    /\ pass = 1 /\ outs = [p \in 1..2 |-> NoOut]

\* The counts of lines 56-58 are the block's inputs.
F1Start ==
    /\ tp \in 0..MaxCount /\ fp \in 0..MaxCount /\ fn \in 0..MaxCount
    /\ precision = Zero /\ recall = Zero /\ test_acc = Zero
    /\ fpc = "l61" /\ ret = Zero

\* A ZeroDivisionError inside the try block goes to the handler of line 64.
F1Raise(exc) == fpc' = IF Handles(exc) THEN "l65" ELSE "uncaught"

\* Line 61: precision = tp / (tp + fp)
Precision ==
    /\ fpc = "l61"
    /\ IF DivRaises(FromInt(tp + fp))
       THEN F1Raise("ZeroDivisionError") /\ UNCHANGED precision
       ELSE precision' = RatDiv(FromInt(tp), FromInt(tp + fp)) /\ fpc' = "l62"
    /\ UNCHANGED <<tp, fp, fn, recall, test_acc, ret>>
    /\ UNCHANGED <<libVars, drvVars>>

\* Line 62: recall = tp / (tp + fn)
Recall ==
    /\ fpc = "l62"
    /\ IF DivRaises(FromInt(tp + fn))
       THEN F1Raise("ZeroDivisionError") /\ UNCHANGED recall
       ELSE recall' = RatDiv(FromInt(tp), FromInt(tp + fn)) /\ fpc' = "l63"
    /\ UNCHANGED <<tp, fp, fn, precision, test_acc, ret>>
    /\ UNCHANGED <<libVars, drvVars>>

\* Line 63: test_acc = accuracy = 2 * (precision * recall) / (precision + recall)
FScore ==
    /\ fpc = "l63"
    /\ IF DivRaises(FDen(precision, recall))
       THEN F1Raise("ZeroDivisionError") /\ UNCHANGED test_acc
       ELSE /\ test_acc' = RatDiv(FNum(precision, recall), FDen(precision, recall))
            /\ fpc' = "l67"
    /\ UNCHANGED <<tp, fp, fn, precision, recall, ret>>
    /\ UNCHANGED <<libVars, drvVars>>

\* Lines 64-65: test_acc = 0.
Except ==
    /\ fpc = "l65"
    /\ test_acc' = Zero
    /\ fpc' = "l67"
    /\ UNCHANGED <<tp, fp, fn, precision, recall, ret>>
    /\ UNCHANGED <<libVars, drvVars>>

\* Line 67: return test_acc
Return ==
    /\ fpc = "l67"
    /\ ret' = test_acc
    /\ fpc' = "returned"
    /\ UNCHANGED <<tp, fp, fn, precision, recall, test_acc>>
    /\ UNCHANGED <<libVars, drvVars>>

F1Next ==
    \/ Precision
    \/ Recall
    \/ FScore
    \/ Except
    \/ Return

\* --------------------------------------------------------------- the driver
DriverArch == "GCN"                      \* line 84: model = GCN(...)
NoErr == [in |-> "none", exc |-> "none"]
Unset == [written |-> 0, val |-> Zero]   \* an entry of torch.empty(args.runs)

\* train_idx = batch.train_mask.nonzero().squeeze(1): the positions set in the
\* mask, ascending.  The mask is held as the set of its set positions.
RECURSIVE Ascending(_)
Ascending(S) ==
    IF S = {} THEN <<>>
    ELSE LET m == CHOOSE v \in S : \A w \in S : v <= w
         IN  <<m>> \o Ascending(S \ {m})

\* Lines 26-29 of train for one batch of n nodes: out = model(...), out[train_idx],
\* loss_fn(out[train_idx], batch.y[train_idx]).  The exception raised, or "ok".
\* A pair is a Python tuple: indexing it with a tensor converts the tensor with
\* __index__, which takes integer tensors of exactly one element, and then the
\* tuple index must be in range; element 0 is the whole logits matrix (n rows),
\* element 1 the float memory_alloc.  batch.y[train_idx] has len(train_idx) rows.
BatchLossForm(form, n, train_idx) ==
    IF form = "tensor" THEN "ok"
    ELSE IF Len(train_idx) # 1 THEN "TypeError"
    ELSE IF ~PyInRange(<<"logits", "memory_alloc">>, train_idx[1]) THEN "IndexError"
    ELSE IF PyGet(<<"logits", "memory_alloc">>, train_idx[1]) # "logits" THEN "TypeError"
    ELSE IF n # Len(train_idx) THEN "ValueError"
    ELSE "ok"

\* Lines 40-53 of test: forward on CPU copies of the data with the model where
\* it was placed, then out.argmax (1-D labels) or out > 0 (2-D labels).
TestForm(form, dev, yd) ==
    IF dev # "cpu" THEN "RuntimeError"
    ELSE IF form = "tensor" THEN "ok"
    ELSE IF yd = 1 THEN "AttributeError"
    ELSE "TypeError"

\* Lines 56-65 as one value.
F1Value(a, b, c) ==
    IF DivRaises(FromInt(a + b)) \/ DivRaises(FromInt(a + c)) THEN Zero
    ELSE LET p == RatDiv(FromInt(a), FromInt(a + b))
             r == RatDiv(FromInt(a), FromInt(a + c))
         IN  IF DivRaises(FDen(p, r)) THEN Zero ELSE RatDiv(FNum(p, r), FDen(p, r))

\* The metrics test can return: a fraction of correct test nodes (line 49) or
\* the F1 value of the test nodes' counts.
TestMetrics(yd, N) ==
    IF yd = 1 THEN UNION {{Rat(c, m) : c \in 0..m} : m \in 1..N}
    ELSE {F1Value(a, b, c) : a \in 0..N, b \in 0..N, c \in 0..N}

DrvIdle ==
    /\ runs = 0 /\ run = 0 /\ epoch = 0 /\ pc = "idle"
    /\ cuda = FALSE /\ device = "cpu" /\ ydim = 1 /\ num_nodes = 1
    /\ mode = "train" /\ params = 0 /\ nbatch = 0 /\ nstep = 0 /\ loss_sum = 0
    /\ total_loss = 0 /\ total_examples = 0 /\ loss = Zero /\ accs = Zero
    /\ lines = 0 /\ results = <<>> /\ summary = 0 /\ err = NoErr

\* Lines 11-16 and 70: the arguments are parsed and results is allocated.  The
\* dataset (its labels' dimension and node count) and the machine (CUDA or not)
\* are the same for every run of the process.
DrvStart ==
    /\ runs \in 0..MaxRuns
    /\ cuda \in BOOLEAN
    /\ ydim \in {1, 2}
    /\ num_nodes \in 1..MaxNodes
    /\ run = 0 /\ epoch = 0 /\ pc = "for_run"
    /\ device = "cpu" /\ mode = "train" /\ params = 0
    /\ nbatch = 0 /\ nstep = 0 /\ loss_sum = 0
    /\ total_loss = 0 /\ total_examples = 0 /\ loss = Zero /\ accs = Zero
    /\ lines = 0
    /\ results = [r \in 1..runs |-> Unset]
    /\ summary = 0 /\ err = NoErr

Crash(where, exc) ==
    /\ err' = [in |-> where, exc |-> exc]
    /\ pc' = "crashed"

\* Lines 71-87: the next run starts; data, loader, loss_fn, device, model and
\* optimizer are made afresh and the epoch loop begins.
RunSetup ==
    /\ pc = "for_run"
    /\ run < runs
    /\ device' = IF cuda THEN "cuda" ELSE "cpu"
    /\ mode' = "train"
    /\ params' = 0
    /\ epoch' = 1
    /\ lines' = 0
    /\ pc' = "train"
    /\ UNCHANGED <<runs, run, cuda, ydim, num_nodes, nbatch, nstep, loss_sum,
                   total_loss, total_examples, loss, accs, results, summary, err>>
    /\ UNCHANGED <<libVars, f1Vars>>

\* Lines 20-21: model.train(); total_loss = total_examples = 0
TrainBegin ==
    /\ pc = "train"
    /\ mode' = "train"
    /\ total_loss' = 0
    /\ total_examples' = 0
    /\ nbatch' = 0 /\ nstep' = 0 /\ loss_sum' = 0
    /\ pc' = "batches"
    /\ UNCHANGED <<runs, run, epoch, cuda, device, ydim, num_nodes, params, loss,
                   accs, lines, results, summary, err>>
    /\ UNCHANGED <<libVars, f1Vars>>

\* Lines 22-34 for one batch: a subgraph of n of the dataset's nodes with its
\* train_mask; l is loss.item().
TrainBatch ==
    /\ pc = "batches"
    /\ nbatch < MaxBatches
    /\ \E n \in 1..num_nodes, mask \in SUBSET (0..(num_nodes - 1)), l \in 0..MaxLoss :
          /\ mask \subseteq 0..(n - 1)
          /\ nbatch' = nbatch + 1
          /\ LET form == BatchLossForm(ForwardForm(DriverArch), n, Ascending(mask))
             IN  IF form # "ok"
                 THEN /\ Crash("train", form)
                      /\ UNCHANGED <<params, nstep, loss_sum, total_loss, total_examples>>
                 ELSE /\ params' = params + 1
                      /\ nstep' = nstep + 1
                      /\ loss_sum' = loss_sum + l
                      /\ total_loss' = total_loss + l * num_nodes
                      /\ total_examples' = total_examples + num_nodes
                      /\ UNCHANGED <<pc, err>>
    /\ UNCHANGED <<runs, run, epoch, cuda, device, ydim, num_nodes, mode, loss,
                   accs, lines, results, summary>>
    /\ UNCHANGED <<libVars, f1Vars>>

\* Line 35, once the loader is exhausted: return total_loss / total_examples
TrainReturn ==
    /\ pc = "batches"
    /\ nbatch >= 1
    /\ IF DivRaises(FromInt(total_examples))
       THEN Crash("train", "ZeroDivisionError") /\ UNCHANGED loss
       ELSE /\ loss' = RatDiv(FromInt(total_loss), FromInt(total_examples))
            /\ pc' = "eval"
            /\ UNCHANGED err
    /\ UNCHANGED <<runs, run, epoch, cuda, device, ydim, num_nodes, mode, params,
                   nbatch, nstep, loss_sum, total_loss, total_examples, accs,
                   lines, results, summary>>
    /\ UNCHANGED <<libVars, f1Vars>>

\* Lines 89-92, the rest of the epoch's iteration: accs = test(model, data), the
\* epoch line, and after the last epoch results[run] = accs and the next run.
EpochEval ==
    /\ pc = "eval"
    /\ mode' = "eval"
    /\ LET form == TestForm(ForwardForm(DriverArch), device, ydim)
       IN  IF form # "ok"
           THEN /\ Crash("test", form)
                /\ UNCHANGED <<accs, lines, epoch, run, results>>
           ELSE /\ accs' \in TestMetrics(ydim, num_nodes)
                /\ lines' = lines + 1
                /\ UNCHANGED err
                /\ IF epoch < NumEpochs
                   THEN /\ epoch' = epoch + 1
                        /\ pc' = "train"
                        /\ UNCHANGED <<run, results>>
                   ELSE /\ results' = [results EXCEPT ![run + 1] =
                                          [written |-> @.written + 1, val |-> accs']]
                        /\ run' = run + 1
                        /\ pc' = "for_run"
                        /\ UNCHANGED epoch
    /\ UNCHANGED <<runs, cuda, device, ydim, num_nodes, params, nbatch, nstep,
                   loss_sum, total_loss, total_examples, loss, summary>>
    /\ UNCHANGED <<libVars, f1Vars>>

\* Line 93, after the loop over runs: the summary line.
Summary ==
    /\ pc = "for_run"
    /\ run >= runs
    /\ summary' = summary + 1
    /\ pc' = "exit"
    /\ UNCHANGED <<runs, run, epoch, cuda, device, ydim, num_nodes, mode, params,
                   nbatch, nstep, loss_sum, total_loss, total_examples, loss,
                   accs, lines, results, err>>
    /\ UNCHANGED <<libVars, f1Vars>>

Next ==
    \/ RunSetup
    \/ TrainBegin
    \/ TrainBatch
    \/ TrainReturn
    \/ EpochEval
    \/ Summary

Init == DrvStart /\ LibIdle /\ F1Idle
LibInit == LibStart /\ F1Idle /\ DrvIdle
F1Init == F1Start /\ LibIdle /\ DrvIdle

Spec == Init /\ [][Next]_vars
SpecLib == LibInit /\ [][LibNext]_vars
SpecF1 == F1Init /\ [][F1Next]_vars

\* ------------------------------------------------------------------ claims

ReverseOrder(k) == [j \in 1..k |-> k - j]

\* C2: built with k layers and given edge_index as a list of k entries, forward
\* returns, and its layers received the entries k-1, k-2, ..., 1, 0 in that
\* order: every entry exactly once, in the reverse of list order.  (All five
\* architectures.)
C2_ReverseConsumption ==
    (lpc = "returned" /\ edge_index.list /\ edge_index.len = Len(hidden_dims))
        => /\ outs[pass].status = "ok"
           /\ consumed = ReverseOrder(Len(hidden_dims))

ChainOf(F, hd) ==
    [i \in 1..Len(hd) |-> Layer(IF i = 1 THEN F ELSE hd[i - 1], hd[i])]
ValidConnectivity == ~edge_index.list \/ edge_index.len = Len(hidden_dims)

\* C3: a model built from in_features = F and hidden_dims = [h1..hk], k >= 1,
\* owns exactly k convolution layers whose widths chain F -> h1 -> ... -> hk,
\* and its forward on an N x F matrix with valid connectivity returns logits
\* with N rows and hk columns.
C3_ShapeContract ==
    /\ (net.status = "ok" /\ Len(hidden_dims) >= 1)
          => net.convs = ChainOf(in_features, hidden_dims)
    /\ (lpc = "returned" /\ ValidConnectivity)
          => /\ outs[pass].status = "ok"
             /\ outs[pass].logits.rows = nrows
             /\ outs[pass].logits.cols = hidden_dims[Len(hidden_dims)]

\* C5: constructing any of the five architectures with an empty hidden_dims
\* ends in a construction-time failure, and no model object is produced.
C5_EmptyHiddenDimsFails ==
    (lpc \notin {"new", "idle"} /\ hidden_dims = <<>>)
        => /\ lpc = "ctor_failed"
           /\ net.status = "IndexError"
           /\ net.convs = <<>>

C5_Witness ==
    /\ lpc = "ctor_failed" /\ hidden_dims = <<>> /\ arch = "PNA"
    /\ net.status = "IndexError"

NoDropApplied(t) == \A j \in 1..Len(t.term) : t.term[j].op # "drop"

\* C6: for GraphSAGE, GCN and GCN2 in evaluation mode, whatever the dropout
\* probability, two forward passes on the same inputs and parameters return the
\* same logits, and no dropout application altered the tensor.
C6_EvalDeterministic ==
    (/\ arch \in {"GraphSAGE", "GCN", "GCN2"}
     /\ ~net.training
     /\ lpc = "returned" /\ outs[pass].status = "ok")
        => /\ NoDropApplied(outs[pass].logits)
           /\ pass = 2 => outs[1].logits = outs[2].logits

C6_Witness ==
    /\ arch = "GCN2" /\ ~net.training /\ dropout > 0
    /\ Len(net.convs) >= 2
    /\ lpc = "returned" /\ pass = 2
    /\ outs[1].status = "ok" /\ outs[2].status = "ok"
    /\ outs[1].logits = outs[2].logits

C1_HundredEpochs ==
    /\ pc \in {"train", "batches", "eval"} => (epoch \in 1..NumEpochs /\ lines = epoch - 1)
    /\ pc = "crashed" => lines = NumEpochs
    /\ (pc = "for_run" /\ run > 0) => (lines = NumEpochs /\ results[run].written = 1)

\* C7: in every train call each batch goes through the whole step sequence
\* (zero_grad, forward, the logits rows of train_mask, loss, backward, one
\* optimizer step): as many optimizer steps as batches, and no step fails on
\* the form of what forward returned.
C7_BatchSteps ==
    /\ err.in # "train"
    /\ pc \in {"batches", "eval"} => nstep = nbatch

\* C8: on the GPU or on the CPU, every test call puts the model in evaluation
\* mode, runs its forward pass on the CPU and returns a metric.
C8_TestReturns ==
    /\ err.in # "test"
    /\ (pc = "train" /\ epoch > 1) => mode = "eval"

\* C9: for an epoch of B >= 1 batches over a dataset of N >= 1 nodes, train
\* returns (sum of l_b * N) / (B * N), the unweighted mean of the batch losses,
\* and returns it in every epoch the driver runs.
C9_MeanLoss ==
    /\ err.in # "train"
    /\ pc = "eval" => loss.n * nbatch = loss_sum * loss.d

\* C10: for runs >= 1 the runs execute one after another, every entry of
\* results is written exactly once, and the summary line is printed exactly
\* once, after every entry was written.
C10_RunsThenSummary ==
    /\ runs >= 1 => pc # "crashed"
    /\ summary <= 1
    /\ summary = 1 => \A r \in 1..runs : results[r].written = 1

=============================================================================
